---- MODULE Spec2Model ----
(***************************************************************************)
(* Model of the Spotify listening-history logger: the two poll scripts     *)
(* log.py and logger.py (get_recently_played, setup_google_sheets,         *)
(* get_artist_genres, run_logger) working against one Google sheet.        *)
(*                                                                         *)
(* A script process lives in a slot.  Its position is pc[s]:               *)
(*   "off"    not running                                                  *)
(*   "setup"  in setup_google_sheets, before worksheet.row_values(1)       *)
(*   "insert" in setup_google_sheets, before worksheet.insert_row          *)
(*   "loop"   between cycles (top of the while loop / before the one call) *)
(*   "read"   in get_recently_played, before worksheet.get_all_values()    *)
(*   "proc"   in the for loop over reversed(results['items']), or past it  *)
(*            and before `if new_tracks: worksheet.append_rows(new_tracks)`*)
(*   "ret"    get_recently_played is returning                             *)
(***************************************************************************)
EXTENDS Integers, Sequences, FiniteSets, TLC

(***************************************************************************)
(* Bounds of the model.                                                    *)
(***************************************************************************)
\* longest fetched page drawn freely from Items
MaxPage == 2
\* most rows of plays the sheet is to hold: a page is offered only if it fits
MaxRows == 3
\* most requests the control panel handles while its children run their cycles
MaxRequests == 2

(***************************************************************************)
(* Program constants.                                                      *)
(***************************************************************************)
\* results['items'][:5] in the debug print
DebugWindow == 5
\* `if len(row) >= 6` when building existing_entries
MinKeyCols == 6

ScriptNames == {"log.py", "logger.py"}
Slots == {1, 2}

Header ==
  <<"Played At", "Track Name", "Artist(s)", "Album", "Duration (ms)", "Track ID", "Genres">>

(***************************************************************************)
(* The feed: tracks, artists, play events.                                 *)
(***************************************************************************)
Artist1 == [id |-> "ar1", name |-> "Artist One"]
Artist2 == [id |-> "ar2", name |-> "Artist Two"]

TrackA ==
  [id |-> "trackA", name |-> "Song A", artists |-> <<Artist1, Artist2>>,
   album |-> [name |-> "Album A"], duration_ms |-> "180000"]
TrackB ==
  [id |-> "trackB", name |-> "Song B", artists |-> <<Artist1>>,
   album |-> [name |-> "Album B"], duration_ms |-> "240000"]
\* a track that lists no artist
TrackN ==
  [id |-> "trackN", name |-> "Song N", artists |-> <<>>,
   album |-> [name |-> "Album N"], duration_ms |-> "200000"]

Item(t, at) == [track |-> t, played_at |-> at]

Items ==
  { Item(TrackA, "2024-05-31T23:59:00Z"),
    Item(TrackB, "2024-06-01T10:00:00Z"),
    Item(TrackN, "2024-06-01T10:00:00Z") }

\* datetime.fromisoformat(played_at.replace('Z', '+00:00')), in minutes since
\* 2024-05-31T00:00:00+00:00
ParseIso(played_at) ==
  CASE played_at = "2024-05-31T23:59:00Z" -> 1439
    [] played_at = "2024-06-01T10:00:00Z" -> 2040
    [] played_at = "2024-06-01T10:05:00Z" -> 2045

\* datetime.now().replace(hour=0, ...).replace(tzinfo=timezone.utc): local
\* midnight of 2024-05-31 or of 2024-06-01, read as a UTC instant
TodayStarts == {0, 1440}

SeqsUpTo(S, n) == UNION { [1..k -> S] : k \in 0..n }

\* a page of DebugWindow recent plays of one track with artists, ahead of one
\* older item: the only pages of the model longer than the debug window
PadItem == Item(TrackB, "2024-06-01T10:00:00Z")
Pad == [i \in 1..DebugWindow |-> PadItem]

Pages == SeqsUpTo(Items, MaxPage) \cup { Pad \o <<it>> : it \in Items }

\* the outcomes of sp.artist(artist_id): a reply with a tag list, or an exception
ArtistReplies ==
  { [raised |-> FALSE, genres |-> <<"rock", "pop">>],
    [raised |-> FALSE, genres |-> <<>>],
    [raised |-> TRUE, genres |-> <<>>] }

(***************************************************************************)
(* Pure helpers.                                                           *)
(***************************************************************************)
RECURSIVE Join(_, _)
\* sep.join(strs)
Join(sep, strs) ==
  IF strs = <<>> THEN ""
  ELSE IF Len(strs) = 1 THEN strs[1]
  ELSE strs[1] \o sep \o Join(sep, Tail(strs))

\* mutant of Reversed: the page is walked in the order delivered
ReversedForgotten(seq) == seq

\* reversed(seq)
Reversed(seq) == [i \in 1..Len(seq) |-> seq[Len(seq) + 1 - i]]

\* mutant of EntryKey: the track id is left out of the key
EntryKeyTimeOnly(played_at, track_id) == played_at

\* f"{played_at}_{track['id']}"
EntryKey(played_at, track_id) == played_at \o "_" \o track_id

\* seq[:n]
Take(seq, n) == SubSeq(seq, 1, IF Len(seq) < n THEN Len(seq) ELSE n)

\* seq[1:]
Rest(seq) == IF seq = <<>> THEN <<>> ELSE Tail(seq)

\* the plays of a page that no row of the sheet records yet, each counted as often
\* as the page repeats it
Unlogged(page, sh) ==
  { i \in 1..Len(page) :
      \A j \in 1..Len(sh) :
        ~(sh[j][1] = page[i].played_at /\ sh[j][6] = page[i].track.id) }

\* the model offers a page only to a sheet that has room for all its unlogged plays
Offered(page, sh) == Len(sh) + Cardinality(Unlogged(page, sh)) <= MaxRows + 1

(***************************************************************************)
(* State.                                                                  *)
(***************************************************************************)
VARIABLES
  sheet,             \* the worksheet: every row, the header row included
  today,             \* datetime.now() cut to midnight, as ParseIso counts
  pc,                \* pc[s]: where the script process of slot s is
  script,            \* script[s]: "log.py", "logger.py" or "none"
  results,           \* results[s]: results['items'] of the running cycle
  today_start,       \* today_start[s] (logger.py only)
  existing_entries,  \* existing_entries[s]
  idx,               \* idx[s]: position of the for loop in reversed(results['items'])
  new_tracks,        \* new_tracks[s]
  sheet0,            \* history: the sheet when the cycle of slot s began
  appends,           \* history: append_rows calls made by the cycle of slot s
  outcome,           \* history: "none", "ok" (the try block ran through) or what raised
  lookups,           \* history: the sp.artist calls of the cycle of slot s, each with its reply
  repeat_of,         \* history: the script whose cycle, completed just before this one, fetched the same page
  first_cycle,       \* history: the process of slot s has not finished a cycle yet
  last_done,         \* history: script and page of the cycle that completed last, if no cycle began since
  processes,         \* main.py: processes[name] is the slot of the child tracked under name, 0 if none
  log_content,       \* main.py: the log buffer
  reader,            \* main.py: reader[s] is the script name the reader thread of slot s tags its lines with
  response,          \* main.py: status of the last response sent
  requests,          \* requests handled so far
  log_lock,          \* main.py: the caller of log_message that holds log_lock, or "free"
  logged,            \* history: every entry log_content was given, in the order given
  status,            \* main.py: the body of the last /status response, script name -> entry
  stopping,          \* main.py: the script stop_script waits for in proc.wait(timeout=5), or "none"
  signals,           \* history: signals[s] lists what the panel sent to the child of slot s
  slept,             \* history: seconds of the last time.sleep call of the process of slot s, 0 if none
  stdout,            \* stdout[s]: the lines in the pipe of the child of slot s, written and not yet read
  emitted,           \* history: every line the child of slot s wrote to its output, in order
  relayed,           \* history: every entry the reader thread of slot s passed to log_message, in order
  clearing           \* main.py: where clear_log stands: "none", or "cleared" between its two steps

locals == <<results, today_start, existing_entries, idx, new_tracks>>
history == <<sheet0, appends, outcome, lookups, repeat_of, slept>>
logging == <<log_lock, logged>>
relay == <<stdout, emitted, relayed>>
panel ==
  <<processes, log_content, reader, response, requests, log_lock, logged, status, stopping,
    signals, stdout, emitted, relayed, clearing>>
vars ==
  <<sheet, today, pc, script, results, today_start, existing_entries, idx, new_tracks,
    sheet0, appends, outcome, lookups, repeat_of, first_cycle, last_done,
    processes, log_content, reader, response, requests, log_lock, logged, status, stopping,
    signals, slept, stdout, emitted, relayed, clearing>>

NoPage == [script |-> "none", page |-> <<>>]

(***************************************************************************)
(* setup_google_sheets and the start of a script.                          *)
(***************************************************************************)
\* worksheet.row_values(1)
RowValues1(sh) == IF sh = <<>> THEN <<>> ELSE sh[1]

\* `not headers or headers[0] != 'Played At'`
HeadersMissing(sh) ==
  LET headers == RowValues1(sh) IN headers = <<>> \/ headers[1] # "Played At"

\* worksheet.insert_row([...], index=1)
InsertRow1(sh, row) == <<row>> \o sh

\* a new process runs the script: setup_spotify, then setup_google_sheets up to
\* the read of row 1
Spawned(s, name) ==
  /\ pc' = [pc EXCEPT ![s] = "setup"]
  /\ script' = [script EXCEPT ![s] = name]
  /\ first_cycle' = [first_cycle EXCEPT ![s] = TRUE]

\* `python log.py` or `python logger.py` typed at a terminal
Launch(s, name) ==
  /\ pc[s] = "off"
  /\ Spawned(s, name)
  /\ UNCHANGED <<sheet, today, locals, history, last_done>>
  /\ UNCHANGED panel

\* headers = worksheet.row_values(1) and the test on it
SetupCheck(s) ==
  /\ pc[s] = "setup"
  /\ pc' = [pc EXCEPT ![s] = IF HeadersMissing(sheet) THEN "insert" ELSE "loop"]
  /\ UNCHANGED <<sheet, today, script, locals, history, first_cycle, last_done>>
  /\ UNCHANGED panel

\* worksheet.insert_row(header, index=1)
InsertHeader(s) ==
  /\ pc[s] = "insert"
  /\ sheet' = InsertRow1(sheet, Header)
  /\ pc' = [pc EXCEPT ![s] = "loop"]
  /\ UNCHANGED <<today, script, locals, history, first_cycle, last_done>>
  /\ UNCHANGED panel

(***************************************************************************)
(* get_recently_played.                                                    *)
(***************************************************************************)
\* the debug print of results['items'][:5] evaluates track['artists'][0]['name']:
\* IndexError on an item without artists
DebugPrintRaises(items) ==
  \E i \in 1..Len(Take(items, DebugWindow)) : items[i].track.artists = <<>>

\* mutant of ExistingEntries: one row too many is skipped with the header
ExistingEntriesSkipTwo(sh) ==
  LET existing_data == Rest(Rest(sh)) IN
  { EntryKey(existing_data[i][1], existing_data[i][6]) :
      i \in { j \in 1..Len(existing_data) : Len(existing_data[j]) >= MinKeyCols } }

\* worksheet.get_all_values()[1:] and the loop that fills existing_entries
ExistingEntries(sh) ==
  LET existing_data == Rest(sh) IN
  { EntryKey(existing_data[i][1], existing_data[i][6]) :
      i \in { j \in 1..Len(existing_data) : Len(existing_data[j]) >= MinKeyCols } }

\* mutant of get_artist_genres: an empty tag list is joined like any other
get_artist_genresJoinsEmpty(reply) ==
  IF reply.raised THEN "Unknown" ELSE Join(", ", reply.genres)

\* get_artist_genres(sp, artist_id), given what sp.artist answers
get_artist_genres(reply) ==
  IF reply.raised THEN "Unknown"
  ELSE IF reply.genres # <<>> THEN Join(", ", reply.genres) ELSE "Unknown"

\* [artist['name'] for artist in track['artists']]
ArtistNames(track) == [i \in 1..Len(track.artists) |-> track.artists[i].name]

\* row_data
RowData(item, genres) ==
  <<item.played_at, item.track.name, Join(", ", ArtistNames(item.track)),
    item.track.album.name, item.track.duration_ms, item.track.id, genres>>

\* `played_at_dt < today_start.replace(tzinfo=timezone.utc)`, in logger.py only
TooOld(s, item) ==
  script[s] = "logger.py" /\ ParseIso(item.played_at) < today_start[s]

\* the cycle of slot s ends in the except block of get_recently_played, which
\* prints the error and falls off the end of the function; why names what raised
Failed(s, why) ==
  /\ pc' = [pc EXCEPT ![s] = "ret"]
  /\ outcome' = [outcome EXCEPT ![s] = why]

\* today_start (logger.py), sp.current_user_recently_played(limit=50), the debug print
Fetch(s, pages) ==
  /\ pc[s] = "loop"
  /\ \E page \in pages :
       /\ Offered(page, sheet)
       /\ results' = [results EXCEPT ![s] = page]
       /\ repeat_of' = [repeat_of EXCEPT ![s] =
                          IF last_done.page = page THEN last_done.script ELSE "none"]
       /\ IF DebugPrintRaises(page)
            THEN Failed(s, "debug_raised")
            ELSE /\ pc' = [pc EXCEPT ![s] = "read"]
                 /\ outcome' = [outcome EXCEPT ![s] = "none"]
  /\ today_start' = [today_start EXCEPT ![s] = IF script[s] = "logger.py" THEN today ELSE 0]
  /\ sheet0' = [sheet0 EXCEPT ![s] = sheet]
  /\ last_done' = NoPage
  /\ UNCHANGED <<sheet, today, script, existing_entries, idx, new_tracks, appends, lookups,
                 first_cycle>>
  /\ UNCHANGED <<slept, panel>>

\* mutant of FetchRaise: the fetch that raised is made again within the cycle
FetchRaiseRetry(s) ==
  /\ pc[s] = "loop"
  /\ outcome' = [outcome EXCEPT ![s] = "fetch_raised"]
  /\ today_start' = [today_start EXCEPT ![s] = IF script[s] = "logger.py" THEN today ELSE 0]
  /\ sheet0' = [sheet0 EXCEPT ![s] = sheet]
  /\ last_done' = NoPage
  /\ UNCHANGED <<sheet, today, pc, script, results, existing_entries, idx, new_tracks, appends,
                 lookups, repeat_of, first_cycle>>
  /\ UNCHANGED <<slept, panel>>

\* sp.current_user_recently_played raises
FetchRaise(s) ==
  /\ pc[s] = "loop"
  /\ Failed(s, "fetch_raised")
  /\ today_start' = [today_start EXCEPT ![s] = IF script[s] = "logger.py" THEN today ELSE 0]
  /\ sheet0' = [sheet0 EXCEPT ![s] = sheet]
  /\ last_done' = NoPage
  /\ UNCHANGED <<sheet, today, script, results, existing_entries, idx, new_tracks, appends,
                 lookups, repeat_of, first_cycle>>
  /\ UNCHANGED <<slept, panel>>

\* mutant of ReadStore: the key set is read from the store in the first cycle of
\* a process only, later cycles go on with what the process kept
ReadStoreCached(s) ==
  /\ pc[s] = "read"
  /\ existing_entries' = [existing_entries EXCEPT ![s] =
                            IF first_cycle[s] THEN ExistingEntries(sheet) ELSE @]
  /\ idx' = [idx EXCEPT ![s] = 1]
  /\ pc' = [pc EXCEPT ![s] = "proc"]
  /\ UNCHANGED <<sheet, today, script, results, today_start, new_tracks, history, first_cycle,
                 last_done>>
  /\ UNCHANGED panel

\* existing_data = worksheet.get_all_values()[1:], existing_entries built from it
ReadStore(s) ==
  /\ pc[s] = "read"
  /\ existing_entries' = [existing_entries EXCEPT ![s] = ExistingEntries(sheet)]
  /\ idx' = [idx EXCEPT ![s] = 1]
  /\ pc' = [pc EXCEPT ![s] = "proc"]
  /\ UNCHANGED <<sheet, today, script, results, today_start, new_tracks, history, first_cycle,
                 last_done>>
  /\ UNCHANGED panel

\* worksheet.get_all_values raises
ReadRaise(s) ==
  /\ pc[s] = "read"
  /\ Failed(s, "read_raised")
  /\ UNCHANGED <<sheet, today, script, locals, sheet0, appends, lookups, repeat_of,
                 first_cycle, last_done>>
  /\ UNCHANGED <<slept, panel>>

\* mutant of ProcessItem: the genres of an artist looked up earlier in the
\* cycle are reused instead of looked up again
ProcessItemCached(s) ==
  /\ pc[s] = "proc"
  /\ idx[s] <= Len(results[s])
  /\ LET item == Reversed(results[s])[idx[s]]
          entry_key == EntryKey(item.played_at, item.track.id)
          seen == IF item.track.artists = <<>> THEN {}
                  ELSE { k \in 1..Len(lookups[s]) :
                           lookups[s][k].artist_id = item.track.artists[1].id }
     IN IF TooOld(s, item) \/ entry_key \in existing_entries[s]
          THEN UNCHANGED <<new_tracks, lookups>>
          ELSE IF item.track.artists # <<>> /\ seen = {}
            THEN \E reply \in ArtistReplies :
                   /\ new_tracks' = [new_tracks EXCEPT ![s] =
                        Append(@, RowData(item, get_artist_genres(reply)))]
                   /\ lookups' = [lookups EXCEPT ![s] =
                        Append(@, [artist_id |-> item.track.artists[1].id, reply |-> reply])]
            ELSE IF item.track.artists # <<>>
              THEN /\ new_tracks' = [new_tracks EXCEPT ![s] = Append(@,
                        RowData(item, get_artist_genres(lookups[s][CHOOSE k \in seen : TRUE].reply)))]
                   /\ UNCHANGED lookups
              ELSE /\ new_tracks' = [new_tracks EXCEPT ![s] = Append(@, RowData(item, "Unknown"))]
                   /\ UNCHANGED lookups
  /\ idx' = [idx EXCEPT ![s] = @ + 1]
  /\ UNCHANGED <<sheet, today, pc, script, results, today_start, existing_entries, sheet0,
                 appends, outcome, repeat_of, first_cycle, last_done>>
  /\ UNCHANGED <<slept, panel>>

\* mutant of ProcessItem: logger.py asks for the genres of the last listed artist
ProcessItemLastArtist(s) ==
  /\ pc[s] = "proc"
  /\ idx[s] <= Len(results[s])
  /\ LET item == Reversed(results[s])[idx[s]]
          entry_key == EntryKey(item.played_at, item.track.id)
          which == IF script[s] = "logger.py" THEN Len(item.track.artists) ELSE 1
     IN IF TooOld(s, item) \/ entry_key \in existing_entries[s]
          THEN UNCHANGED <<new_tracks, lookups>>
          ELSE IF item.track.artists # <<>>
            THEN \E reply \in ArtistReplies :
                   /\ new_tracks' = [new_tracks EXCEPT ![s] =
                        Append(@, RowData(item, get_artist_genres(reply)))]
                   /\ lookups' = [lookups EXCEPT ![s] =
                        Append(@, [artist_id |-> item.track.artists[which].id, reply |-> reply])]
            ELSE /\ new_tracks' = [new_tracks EXCEPT ![s] = Append(@, RowData(item, "Unknown"))]
                 /\ UNCHANGED lookups
  /\ idx' = [idx EXCEPT ![s] = @ + 1]
  /\ UNCHANGED <<sheet, today, pc, script, results, today_start, existing_entries, sheet0,
                 appends, outcome, repeat_of, first_cycle, last_done>>
  /\ UNCHANGED <<slept, panel>>

\* one pass of `for item in reversed(results['items'])`
ProcessItem(s) ==
  /\ pc[s] = "proc"
  /\ idx[s] <= Len(results[s])
  /\ LET item == Reversed(results[s])[idx[s]]
          entry_key == EntryKey(item.played_at, item.track.id)
     IN IF TooOld(s, item) \/ entry_key \in existing_entries[s]
          THEN UNCHANGED <<new_tracks, lookups>>
          ELSE IF item.track.artists # <<>>
            THEN \E reply \in ArtistReplies :
                   /\ new_tracks' = [new_tracks EXCEPT ![s] =
                        Append(@, RowData(item, get_artist_genres(reply)))]
                   /\ lookups' = [lookups EXCEPT ![s] =
                        Append(@, [artist_id |-> item.track.artists[1].id, reply |-> reply])]
            ELSE /\ new_tracks' = [new_tracks EXCEPT ![s] = Append(@, RowData(item, "Unknown"))]
                 /\ UNCHANGED lookups
  /\ idx' = [idx EXCEPT ![s] = @ + 1]
  /\ UNCHANGED <<sheet, today, pc, script, results, today_start, existing_entries, sheet0,
                 appends, outcome, repeat_of, first_cycle, last_done>>
  /\ UNCHANGED <<slept, panel>>

\* mutant of AppendedSheet: the batch is written over the last row
AppendedSheetOverwrite(sh, rows) == SubSeq(sh, 1, Len(sh) - 1) \o rows

\* worksheet.append_rows(rows)
AppendedSheet(sh, rows) == sh \o rows

\* mutant of AppendRows: the rows collected so far are appended inside the loop
AppendRowsEarly(s) ==
  /\ pc[s] = "proc"
  /\ new_tracks[s] # <<>>
  /\ appends[s] < 2
  /\ sheet' = sheet \o new_tracks[s]
  /\ appends' = [appends EXCEPT ![s] = @ + 1]
  /\ pc' = [pc EXCEPT ![s] = IF idx[s] > Len(results[s]) THEN "ret" ELSE "proc"]
  /\ outcome' = [outcome EXCEPT ![s] = IF idx[s] > Len(results[s]) THEN "ok" ELSE @]
  /\ UNCHANGED <<today, script, locals, sheet0, lookups, repeat_of, first_cycle, last_done>>
  /\ UNCHANGED <<slept, panel>>

\* `if new_tracks: worksheet.append_rows(new_tracks)` after the loop
AppendRows(s) ==
  /\ pc[s] = "proc"
  /\ idx[s] > Len(results[s])
  /\ new_tracks[s] # <<>>
  /\ sheet' = AppendedSheet(sheet, new_tracks[s])
  /\ appends' = [appends EXCEPT ![s] = @ + 1]
  /\ pc' = [pc EXCEPT ![s] = "ret"]
  /\ outcome' = [outcome EXCEPT ![s] = "ok"]
  /\ UNCHANGED <<today, script, locals, sheet0, lookups, repeat_of, first_cycle, last_done>>
  /\ UNCHANGED <<slept, panel>>

\* worksheet.append_rows raises
AppendRaise(s) ==
  /\ pc[s] = "proc"
  /\ idx[s] > Len(results[s])
  /\ new_tracks[s] # <<>>
  /\ appends' = [appends EXCEPT ![s] = @ + 1]
  /\ Failed(s, "append_raised")
  /\ UNCHANGED <<sheet, today, script, locals, sheet0, lookups, repeat_of, first_cycle,
                 last_done>>
  /\ UNCHANGED <<slept, panel>>

\* mutant of NothingNew: append_rows is called with the empty list
NothingNewAppends(s) ==
  /\ pc[s] = "proc"
  /\ idx[s] > Len(results[s])
  /\ new_tracks[s] = <<>>
  /\ appends' = [appends EXCEPT ![s] = @ + 1]
  /\ pc' = [pc EXCEPT ![s] = "ret"]
  /\ outcome' = [outcome EXCEPT ![s] = "ok"]
  /\ UNCHANGED <<sheet, today, script, locals, sheet0, lookups, repeat_of, first_cycle,
                 last_done>>
  /\ UNCHANGED <<slept, panel>>

\* the else branch: "No new tracks to log"
NothingNew(s) ==
  /\ pc[s] = "proc"
  /\ idx[s] > Len(results[s])
  /\ new_tracks[s] = <<>>
  /\ pc' = [pc EXCEPT ![s] = "ret"]
  /\ outcome' = [outcome EXCEPT ![s] = "ok"]
  /\ UNCHANGED <<sheet, today, script, locals, sheet0, appends, lookups, repeat_of,
                 first_cycle, last_done>>
  /\ UNCHANGED <<slept, panel>>

\* the locals of get_recently_played are gone
ClearCycle(s) ==
  /\ results' = [results EXCEPT ![s] = <<>>]
  /\ today_start' = [today_start EXCEPT ![s] = 0]
  /\ existing_entries' = [existing_entries EXCEPT ![s] = {}]
  /\ idx' = [idx EXCEPT ![s] = 0]
  /\ new_tracks' = [new_tracks EXCEPT ![s] = <<>>]
  /\ sheet0' = [sheet0 EXCEPT ![s] = <<>>]
  /\ appends' = [appends EXCEPT ![s] = 0]
  /\ outcome' = [outcome EXCEPT ![s] = "none"]
  /\ lookups' = [lookups EXCEPT ![s] = <<>>]
  /\ repeat_of' = [repeat_of EXCEPT ![s] = "none"]

\* run_logger(interval_minutes=10), as __main__ of log.py calls it
interval_minutes == 10

\* `time.sleep(300)` in the `except Exception` block of run_logger
RetryDelay == 300

\* mutant of Return: a cycle that ended in its except block is followed by the
\* retry delay
ReturnRetriesSooner(s) ==
  /\ pc[s] = "ret"
  /\ pc' = [pc EXCEPT ![s] = IF script[s] = "log.py" THEN "loop" ELSE "off"]
  /\ script' = [script EXCEPT ![s] = IF script[s] = "log.py" THEN @ ELSE "none"]
  /\ last_done' = IF outcome[s] = "ok"
                    THEN [script |-> script[s], page |-> results[s]] ELSE last_done
  /\ first_cycle' = [first_cycle EXCEPT ![s] = FALSE]
  /\ slept' = [slept EXCEPT ![s] =
                 IF script[s] # "log.py" THEN 0
                 ELSE IF outcome[s] = "ok" THEN interval_minutes * 60 ELSE RetryDelay]
  /\ ClearCycle(s)
  /\ UNCHANGED <<sheet, today>>
  /\ UNCHANGED panel

\* get_recently_played returns.  log.py (run_logger): time.sleep(interval_minutes * 60)
\* and the next pass of `while True`.  logger.py (__main__): "Script finished."
Return(s) ==
  /\ pc[s] = "ret"
  /\ pc' = [pc EXCEPT ![s] = IF script[s] = "log.py" THEN "loop" ELSE "off"]
  /\ script' = [script EXCEPT ![s] = IF script[s] = "log.py" THEN @ ELSE "none"]
  /\ last_done' = IF outcome[s] = "ok"
                    THEN [script |-> script[s], page |-> results[s]] ELSE last_done
  /\ first_cycle' = [first_cycle EXCEPT ![s] = FALSE]
  /\ slept' = [slept EXCEPT ![s] = IF script[s] = "log.py" THEN interval_minutes * 60 ELSE 0]
  /\ ClearCycle(s)
  /\ UNCHANGED <<sheet, today>>
  /\ UNCHANGED panel

\* run_logger: a statement of the try block outside get_recently_played raises
\* an Exception (the timestamp or its print); "Retrying in 5 minutes...",
\* time.sleep(300) and the next pass of `while True`
Unexpected(s) ==
  /\ pc[s] = "loop"
  /\ script[s] = "log.py"
  /\ slept' = [slept EXCEPT ![s] = RetryDelay]
  /\ UNCHANGED <<sheet, today, pc, script, locals, sheet0, appends, outcome, lookups,
                 repeat_of, first_cycle, last_done>>
  /\ UNCHANGED panel

\* the process of slot s is gone
Terminated(s) ==
  /\ pc' = [pc EXCEPT ![s] = "off"]
  /\ script' = [script EXCEPT ![s] = "none"]
  /\ first_cycle' = [first_cycle EXCEPT ![s] = FALSE]
  /\ slept' = [slept EXCEPT ![s] = 0]
  /\ ClearCycle(s)

\* the process is interrupted from the terminal (KeyboardInterrupt)
Kill(s) ==
  /\ pc[s] # "off"
  /\ Terminated(s)
  /\ UNCHANGED <<sheet, today, last_done>>
  /\ UNCHANGED panel

\* midnight passes
Midnight ==
  /\ today = 0
  /\ today' = 1440
  /\ UNCHANGED <<sheet, pc, script, locals, history, first_cycle, last_done>>
  /\ UNCHANGED panel

(***************************************************************************)
(* Cycles one at a time: a single script process at any moment, started    *)
(* and interrupted from a terminal.                                        *)
(***************************************************************************)
Init ==
  /\ sheet = <<>>
  /\ today = 0
  /\ pc = [s \in Slots |-> "off"]
  /\ script = [s \in Slots |-> "none"]
  /\ results = [s \in Slots |-> <<>>]
  /\ today_start = [s \in Slots |-> 0]
  /\ existing_entries = [s \in Slots |-> {}]
  /\ idx = [s \in Slots |-> 0]
  /\ new_tracks = [s \in Slots |-> <<>>]
  /\ sheet0 = [s \in Slots |-> <<>>]
  /\ appends = [s \in Slots |-> 0]
  /\ outcome = [s \in Slots |-> "none"]
  /\ lookups = [s \in Slots |-> <<>>]
  /\ repeat_of = [s \in Slots |-> "none"]
  /\ first_cycle = [s \in Slots |-> FALSE]
  /\ last_done = NoPage
  /\ processes = [n \in ScriptNames |-> 0]
  /\ log_content = <<>>
  /\ reader = [s \in Slots |-> "none"]
  /\ response = "none"
  /\ requests = 0
  /\ log_lock = "free"
  /\ logged = <<>>
  /\ status = <<>>
  /\ stopping = "none"
  /\ signals = [s \in Slots |-> <<>>]
  /\ slept = [s \in Slots |-> 0]
  /\ stdout = [s \in Slots |-> <<>>]
  /\ emitted = [s \in Slots |-> <<>>]
  /\ relayed = [s \in Slots |-> <<>>]
  /\ clearing = "none"

Next ==
  \/ \E name \in ScriptNames : Launch(1, name)
  \/ SetupCheck(1)
  \/ InsertHeader(1)
  \/ Fetch(1, Pages)
  \/ FetchRaise(1)
  \/ ReadStore(1)
  \/ ReadRaise(1)
  \/ ProcessItem(1)
  \/ AppendRows(1)
  \/ AppendRaise(1)
  \/ NothingNew(1)
  \/ Return(1)
  \/ Kill(1)
  \/ Midnight

Spec == Init /\ [][Next]_vars

(***************************************************************************)
(* A script left alone: started from a terminal and never interrupted.     *)
(***************************************************************************)
\* the pages the feed serves to a script left alone
ShortPages == SeqsUpTo(Items, 1)

NextAlone ==
  \/ \E name \in ScriptNames : Launch(1, name)
  \/ SetupCheck(1)
  \/ InsertHeader(1)
  \/ Fetch(1, ShortPages)
  \/ FetchRaise(1)
  \/ ReadStore(1)
  \/ ReadRaise(1)
  \/ ProcessItem(1)
  \/ AppendRows(1)
  \/ AppendRaise(1)
  \/ NothingNew(1)
  \/ Return(1)
  \/ Midnight

SpecAlone == Init /\ [][NextAlone]_vars

(***************************************************************************)
(* main.py: the control panel.  Its handlers are `async def` without an    *)
(* await, so the event loop runs each from start to end before the next;   *)
(* the children and the reader threads run beside them.                    *)
(***************************************************************************)
\* `if len(log_content) > 1000` in log_message
LogCap == 1000

\* mutant of Trimmed: the newest entry is dropped
TrimmedNewest(log) == IF Len(log) > LogCap THEN SubSeq(log, 1, Len(log) - 1) ELSE log

\* `if len(log_content) > 1000: log_content.pop(0)`
Trimmed(log) == IF Len(log) > LogCap THEN Tail(log) ELSE log

\* log_message(msg) on the buffer log, from taking log_lock to releasing it; the
\* timestamp prefix is left out of the entry
log_message(log, msg) == Trimmed(Append(log, msg))

RECURSIVE LogAll(_, _)
\* log_message for each of msgs in turn
LogAll(log, msgs) ==
  IF msgs = <<>> THEN log ELSE LogAll(log_message(log, Head(msgs)), Tail(msgs))

\* the script names a request may carry
RequestNames == ScriptNames \cup {"other.py"}

\* `script_name in processes`
Tracked(name) == name \in ScriptNames /\ processes[name] # 0

\* proc.poll() is None
Alive(s) == pc[s] # "off"

\* the slots a new Popen object for name may take: no process and no reader
\* thread in it, and no other entry of the process table holding it
FreeSlots(name) ==
  { s \in Slots :
      /\ pc[s] = "off"
      /\ reader[s] = "none"
      /\ \A n \in ScriptNames \ {name} : processes[n] # s }

Lowest(S) == CHOOSE s \in S : \A t \in S : s <= t

\* mutant of run_script: the test of the tracked child's liveness is left out
run_scriptUntested(name, file_exists, popen_ok) ==
  /\ stopping = "none"
  /\ requests' = requests + 1
  /\ IF name \notin ScriptNames
       THEN /\ log_content' = log_message(log_content, "Invalid script name: " \o name)
            /\ response' = "error 400"
            /\ UNCHANGED <<processes, reader, pc, script, first_cycle, signals, relay>>
       ELSE IF ~file_exists
       THEN /\ log_content' = log_message(log_content, "Script not found: " \o name)
            /\ response' = "error 404"
            /\ UNCHANGED <<processes, reader, pc, script, first_cycle, signals, relay>>
       ELSE IF ~popen_ok
       THEN /\ log_content' = LogAll(log_content,
                 <<"Starting " \o name \o "...", "Error starting " \o name, "Traceback">>)
            /\ response' = "error 500"
            /\ UNCHANGED <<processes, reader, pc, script, first_cycle, signals, relay>>
       ELSE /\ FreeSlots(name) # {}
            /\ LET proc == Lowest(FreeSlots(name)) IN
                 /\ Spawned(proc, name)
                 /\ processes' = [processes EXCEPT ![name] = proc]
                 /\ reader' = [reader EXCEPT ![proc] = name]
                 /\ signals' = [signals EXCEPT ![proc] = <<>>]
                 /\ stdout' = [stdout EXCEPT ![proc] = <<>>]
                 /\ emitted' = [emitted EXCEPT ![proc] = <<>>]
                 /\ relayed' = [relayed EXCEPT ![proc] = <<>>]
                 /\ log_content' = LogAll(log_content,
                      <<"Starting " \o name \o "...", "Started " \o name,
                        "[" \o name \o "] Watching for output...">>)
            /\ response' = "success"
  /\ UNCHANGED <<sheet, today, locals, history, last_done>>
  /\ UNCHANGED <<clearing, logging, status, stopping>>

\* mutant of run_script: when Popen raises, the entry of the script is dropped
run_scriptDropsEntry(name, file_exists, popen_ok) ==
  /\ stopping = "none"
  /\ requests' = requests + 1
  /\ IF name \notin ScriptNames
       THEN /\ log_content' = log_message(log_content, "Invalid script name: " \o name)
            /\ response' = "error 400"
            /\ UNCHANGED <<processes, reader, pc, script, first_cycle, signals, relay>>
       ELSE IF Tracked(name) /\ Alive(processes[name])
       THEN /\ log_content' = log_message(log_content, name \o " is already running")
            /\ response' = "info"
            /\ UNCHANGED <<processes, reader, pc, script, first_cycle, signals, relay>>
       ELSE IF ~file_exists
       THEN /\ log_content' = log_message(log_content, "Script not found: " \o name)
            /\ response' = "error 404"
            /\ UNCHANGED <<processes, reader, pc, script, first_cycle, signals, relay>>
       ELSE IF ~popen_ok
       THEN /\ log_content' = LogAll(log_content,
                 <<"Starting " \o name \o "...", "Error starting " \o name, "Traceback">>)
            /\ response' = "error 500"
            /\ processes' = [processes EXCEPT ![name] = 0]
            /\ UNCHANGED <<reader, pc, script, first_cycle, signals, relay>>
       ELSE /\ FreeSlots(name) # {}
            /\ LET proc == Lowest(FreeSlots(name)) IN
                 /\ Spawned(proc, name)
                 /\ processes' = [processes EXCEPT ![name] = proc]
                 /\ reader' = [reader EXCEPT ![proc] = name]
                 /\ signals' = [signals EXCEPT ![proc] = <<>>]
                 /\ stdout' = [stdout EXCEPT ![proc] = <<>>]
                 /\ emitted' = [emitted EXCEPT ![proc] = <<>>]
                 /\ relayed' = [relayed EXCEPT ![proc] = <<>>]
                 /\ log_content' = LogAll(log_content,
                      <<"Starting " \o name \o "...", "Started " \o name,
                        "[" \o name \o "] Watching for output...">>)
            /\ response' = "success"
  /\ UNCHANGED <<sheet, today, locals, history, last_done>>
  /\ UNCHANGED <<clearing, logging, status, stopping>>

\* POST /run-script/{script_name}.  file_exists: os.path.exists(script_name);
\* popen_ok: subprocess.Popen does not raise
run_script(name, file_exists, popen_ok) ==
  /\ stopping = "none"
  /\ requests' = requests + 1
  /\ IF name \notin ScriptNames
       THEN /\ log_content' = log_message(log_content, "Invalid script name: " \o name)
            /\ response' = "error 400"
            /\ UNCHANGED <<processes, reader, pc, script, first_cycle, signals, relay>>
       ELSE IF Tracked(name) /\ Alive(processes[name])
       THEN /\ log_content' = log_message(log_content, name \o " is already running")
            /\ response' = "info"
            /\ UNCHANGED <<processes, reader, pc, script, first_cycle, signals, relay>>
       ELSE IF ~file_exists
       THEN /\ log_content' = log_message(log_content, "Script not found: " \o name)
            /\ response' = "error 404"
            /\ UNCHANGED <<processes, reader, pc, script, first_cycle, signals, relay>>
       ELSE IF ~popen_ok
       THEN /\ log_content' = LogAll(log_content,
                 <<"Starting " \o name \o "...", "Error starting " \o name, "Traceback">>)
            /\ response' = "error 500"
            /\ UNCHANGED <<processes, reader, pc, script, first_cycle, signals, relay>>
       ELSE /\ FreeSlots(name) # {}
            /\ LET proc == Lowest(FreeSlots(name)) IN
                 /\ Spawned(proc, name)
                 /\ processes' = [processes EXCEPT ![name] = proc]
                 /\ reader' = [reader EXCEPT ![proc] = name]
                 /\ signals' = [signals EXCEPT ![proc] = <<>>]
                 /\ stdout' = [stdout EXCEPT ![proc] = <<>>]
                 /\ emitted' = [emitted EXCEPT ![proc] = <<>>]
                 /\ relayed' = [relayed EXCEPT ![proc] = <<>>]
                 /\ log_content' = LogAll(log_content,
                      <<"Starting " \o name \o "...", "Started " \o name,
                        "[" \o name \o "] Watching for output...">>)
            /\ response' = "success"
  /\ UNCHANGED <<sheet, today, locals, history, last_done>>
  /\ UNCHANGED <<clearing, logging, status, stopping>>

\* POST /stop-script/{script_name}, up to its return or, for a live child, up to
\* proc.terminate() and the start of proc.wait(timeout=5)
stop_script(name) ==
  /\ stopping = "none"
  /\ requests' = requests + 1
  /\ IF ~Tracked(name)
       THEN /\ log_content' = log_message(log_content, "Script " \o name \o " is not running")
            /\ response' = "info"
            /\ UNCHANGED <<processes, stopping, signals>>
       ELSE IF ~Alive(processes[name])
       THEN /\ log_content' =
                 log_message(log_content, "Script " \o name \o " has already stopped")
            /\ processes' = [processes EXCEPT ![name] = 0]
            /\ response' = "info"
            /\ UNCHANGED <<stopping, signals>>
       ELSE /\ log_content' = log_message(log_content, "Stopping " \o name \o "...")
            /\ signals' = [signals EXCEPT ![processes[name]] = Append(@, "terminate")]
            /\ stopping' = name
            /\ UNCHANGED <<processes, response>>
  /\ UNCHANGED <<sheet, today, pc, script, first_cycle, locals, history, reader, last_done>>
  /\ UNCHANGED <<relay, clearing, logging, status>>

\* the child of the script being stopped ends on the termination signal
ExitOnTerminate(s) ==
  /\ stopping \in ScriptNames
  /\ processes[stopping] = s
  /\ Alive(s)
  /\ Terminated(s)
  /\ UNCHANGED <<sheet, today, last_done>>
  /\ UNCHANGED panel

\* mutant of StopWaited: the child is killed although the wait found it gone
StopWaitedKills(name) ==
  /\ stopping = name
  /\ ~Alive(processes[name])
  /\ signals' = [signals EXCEPT ![processes[name]] = Append(@, "kill")]
  /\ log_content' = log_message(log_content, "Stopped " \o name)
  /\ processes' = [processes EXCEPT ![name] = 0]
  /\ response' = "success"
  /\ stopping' = "none"
  /\ UNCHANGED <<sheet, today, pc, script, first_cycle, locals, history, reader, last_done,
                 requests>>
  /\ UNCHANGED <<relay, clearing, logging, status>>

\* stop_script: proc.wait(timeout=5) returns, the child is gone
StopWaited(name) ==
  /\ stopping = name
  /\ ~Alive(processes[name])
  /\ log_content' = log_message(log_content, "Stopped " \o name)
  /\ processes' = [processes EXCEPT ![name] = 0]
  /\ response' = "success"
  /\ stopping' = "none"
  /\ UNCHANGED <<sheet, today, pc, script, first_cycle, locals, history, reader, last_done,
                 requests, signals>>
  /\ UNCHANGED <<relay, clearing, logging, status>>

\* stop_script: proc.wait(timeout=5) raises TimeoutExpired with the child still
\* there; proc.kill(), proc.wait()
StopTimedOut(name) ==
  /\ stopping = name
  /\ Alive(processes[name])
  /\ signals' = [signals EXCEPT ![processes[name]] = Append(@, "kill")]
  /\ Terminated(processes[name])
  /\ log_content' = LogAll(log_content,
       <<"Force killing " \o name \o "...", "Force stopped " \o name>>)
  /\ processes' = [processes EXCEPT ![name] = 0]
  /\ response' = "success"
  /\ stopping' = "none"
  /\ UNCHANGED <<sheet, today, reader, last_done, requests>>
  /\ UNCHANGED <<relay, clearing, logging, status>>

\* the entry of a script in the body of a /status response; pid 0 stands for None
StatusEntry(name) ==
  IF Alive(processes[name])
    THEN [running |-> TRUE, pid |-> processes[name]]
    ELSE [running |-> FALSE, pid |-> 0]

\* mutant of get_status: the entries of exited children stay in the table
get_statusKeepsAll ==
  /\ stopping = "none"
  /\ requests' = requests + 1
  /\ status' = [name \in { n \in ScriptNames : Tracked(n) } |-> StatusEntry(name)]
  /\ response' = "status"
  /\ UNCHANGED <<sheet, today, pc, script, first_cycle, locals, history, reader, last_done,
                 log_content, processes>>
  /\ UNCHANGED <<relay, clearing, logging, stopping, signals>>

\* GET /status
get_status ==
  /\ stopping = "none"
  /\ requests' = requests + 1
  /\ status' = [name \in { n \in ScriptNames : Tracked(n) } |-> StatusEntry(name)]
  /\ processes' = [name \in ScriptNames |->
                     IF Tracked(name) /\ ~Alive(processes[name]) THEN 0 ELSE processes[name]]
  /\ response' = "status"
  /\ UNCHANGED <<sheet, today, pc, script, first_cycle, locals, history, reader, last_done,
                 log_content>>
  /\ UNCHANGED <<relay, clearing, logging, stopping, signals>>

\* f"[{script_name}] Process ended (exit code: {proc.poll()})", the exit code left out
ProcessEnded(script_name) == "[" \o script_name \o "] Process ended"

\* read_process_output once the child is gone: readline returns '' and proc.poll()
\* is not None, the loop breaks and the finally block logs
ReaderEnd(s) ==
  /\ reader[s] # "none"
  /\ stdout[s] = <<>>
  /\ ~Alive(s)
  /\ log_content' = log_message(log_content, ProcessEnded(reader[s]))
  /\ relayed' = [relayed EXCEPT ![s] = Append(@, ProcessEnded(reader[s]))]
  /\ reader' = [reader EXCEPT ![s] = "none"]
  /\ UNCHANGED <<sheet, today, pc, script, locals, history, first_cycle, last_done,
                 processes, response, requests>>
  /\ UNCHANGED <<stdout, emitted, clearing, logging, status, stopping, signals>>

\* the pages the feed serves while the panel runs the scripts
PanelPages == SeqsUpTo({PadItem}, 1)

\* lifespan has logged its two start messages; no child runs
InitPanel ==
  /\ sheet = <<>>
  /\ today = 0
  /\ pc = [s \in Slots |-> "off"]
  /\ script = [s \in Slots |-> "none"]
  /\ results = [s \in Slots |-> <<>>]
  /\ today_start = [s \in Slots |-> 0]
  /\ existing_entries = [s \in Slots |-> {}]
  /\ idx = [s \in Slots |-> 0]
  /\ new_tracks = [s \in Slots |-> <<>>]
  /\ sheet0 = [s \in Slots |-> <<>>]
  /\ appends = [s \in Slots |-> 0]
  /\ outcome = [s \in Slots |-> "none"]
  /\ lookups = [s \in Slots |-> <<>>]
  /\ repeat_of = [s \in Slots |-> "none"]
  /\ first_cycle = [s \in Slots |-> FALSE]
  /\ last_done = NoPage
  /\ processes = [n \in ScriptNames |-> 0]
  /\ log_content = <<"Starting Spotify Logger Web Application...",
                     "Server running at http://127.0.0.1:8000">>
  /\ reader = [s \in Slots |-> "none"]
  /\ response = "none"
  /\ requests = 0
  /\ log_lock = "free"
  /\ logged = <<>>
  /\ status = <<>>
  /\ stopping = "none"
  /\ signals = [s \in Slots |-> <<>>]
  /\ slept = [s \in Slots |-> 0]
  /\ stdout = [s \in Slots |-> <<>>]
  /\ emitted = [s \in Slots |-> <<>>]
  /\ relayed = [s \in Slots |-> <<>>]
  /\ clearing = "none"

NextPanel ==
  \/ /\ requests < MaxRequests
     /\ \E name \in RequestNames, file_exists, popen_ok \in BOOLEAN :
          run_script(name, file_exists, popen_ok)
  \/ /\ requests < MaxRequests
     /\ \E name \in RequestNames : stop_script(name)
  \/ \E name \in ScriptNames : StopWaited(name) \/ StopTimedOut(name)
  \/ \E s \in Slots :
       \/ SetupCheck(s)
       \/ InsertHeader(s)
       \/ Fetch(s, PanelPages)
       \/ FetchRaise(s)
       \/ ReadStore(s)
       \/ ReadRaise(s)
       \/ ProcessItem(s)
       \/ AppendRows(s)
       \/ AppendRaise(s)
       \/ NothingNew(s)
       \/ Return(s)
       \/ ExitOnTerminate(s)
       \/ ReaderEnd(s)

SpecPanel == InitPanel /\ [][NextPanel]_vars

(***************************************************************************)
(* main.py: the process table.  The panel sees of a child only whether it  *)
(* is alive; a child ends by itself, by a signal from outside, or by the   *)
(* signals of stop_script.                                                 *)
(***************************************************************************)
\* most requests the panel handles while the process table is followed
MaxCalls == 3

NextTable ==
  \/ /\ requests < MaxCalls
     /\ \E name \in RequestNames, file_exists, popen_ok \in BOOLEAN :
          run_script(name, file_exists, popen_ok)
  \/ /\ requests < MaxCalls
     /\ \E name \in RequestNames : stop_script(name)
  \/ \E name \in ScriptNames : StopWaited(name) \/ StopTimedOut(name)
  \/ requests < MaxCalls /\ get_status
  \/ \E s \in Slots :
       \/ Kill(s)
       \/ ExitOnTerminate(s)
       \/ ReaderEnd(s)

SpecTable == InitPanel /\ [][NextTable]_vars

(***************************************************************************)
(* main.py: log_message step by step, called by the handlers of the event  *)
(* loop and by the reader threads at once, on a buffer that is nearly full.*)
(***************************************************************************)
\* most calls of log_message the model follows
MaxMessages == 4

\* the threads that call log_message: the event loop (lifespan and handlers) and
\* the read_process_output threads of two children
Callers == {"loop", "reader 1", "reader 2"}

\* formatted_msg of the n-th entry, a line logged by caller t
Entry(t, n) == "[" \o t \o "] line " \o ToString(n)

\* the buffer after LogCap - 1 entries
Backlog == [i \in 1..(LogCap - 1) |-> "line " \o ToString(i)]

\* `with log_lock:` is entered and log_content.append(formatted_msg) runs
LogAppend(t) ==
  /\ log_lock = "free"
  /\ Len(logged) < Len(Backlog) + MaxMessages
  /\ LET formatted_msg == Entry(t, Len(logged) + 1) IN
       /\ log_content' = Append(log_content, formatted_msg)
       /\ logged' = Append(logged, formatted_msg)
  /\ log_lock' = t
  /\ UNCHANGED <<relay, clearing, sheet, today, pc, script, locals, history, first_cycle, last_done,
                 processes, reader, response, requests, status, stopping, signals>>

\* the length test and pop(0), and the with block is left
LogTrim(t) ==
  /\ log_lock = t
  /\ log_content' = Trimmed(log_content)
  /\ log_lock' = "free"
  /\ UNCHANGED <<relay, clearing, sheet, today, pc, script, locals, history, first_cycle, last_done,
                 processes, reader, response, requests, logged, status, stopping, signals>>

InitLog ==
  /\ sheet = <<>>
  /\ today = 0
  /\ pc = [s \in Slots |-> "off"]
  /\ script = [s \in Slots |-> "none"]
  /\ results = [s \in Slots |-> <<>>]
  /\ today_start = [s \in Slots |-> 0]
  /\ existing_entries = [s \in Slots |-> {}]
  /\ idx = [s \in Slots |-> 0]
  /\ new_tracks = [s \in Slots |-> <<>>]
  /\ sheet0 = [s \in Slots |-> <<>>]
  /\ appends = [s \in Slots |-> 0]
  /\ outcome = [s \in Slots |-> "none"]
  /\ lookups = [s \in Slots |-> <<>>]
  /\ repeat_of = [s \in Slots |-> "none"]
  /\ first_cycle = [s \in Slots |-> FALSE]
  /\ last_done = NoPage
  /\ processes = [n \in ScriptNames |-> 0]
  /\ log_content = Backlog
  /\ reader = [s \in Slots |-> "none"]
  /\ response = "none"
  /\ requests = 0
  /\ log_lock = "free"
  /\ logged = Backlog
  /\ status = <<>>
  /\ stopping = "none"
  /\ signals = [s \in Slots |-> <<>>]
  /\ slept = [s \in Slots |-> 0]
  /\ stdout = [s \in Slots |-> <<>>]
  /\ emitted = [s \in Slots |-> <<>>]
  /\ relayed = [s \in Slots |-> <<>>]
  /\ clearing = "none"

NextLog == \E t \in Callers : LogAppend(t) \/ LogTrim(t)

SpecLog == InitLog /\ [][NextLog]_vars

(***************************************************************************)
(* Vocabulary of the properties.                                           *)
(***************************************************************************)
IsHeaderRow(row) == row = Header
NotHeaderRow(row) == ~IsHeaderRow(row)

\* the LogRows of a sheet: its rows other than the header row
DataRows(sh) == SelectSeq(sh, NotHeaderRow)

\* the (playedAt, trackId) key of a LogRow and of a play event
RowKey(row) == <<row[1], row[6]>>
ItemKey(item) == <<item.played_at, item.track.id>>
RowKeys(rows) == { RowKey(rows[i]) : i \in 1..Len(rows) }
KeySeqOfRows(rows) == [i \in 1..Len(rows) |-> RowKey(rows[i])]
KeySeqOfItems(items) == [i \in 1..Len(items) |-> ItemKey(items[i])]

IsPrefix(a, b) == Len(a) <= Len(b) /\ SubSeq(b, 1, Len(a)) = a

\* get_recently_played of slot s ran through its try block and is returning
CycleDone(s) == pc[s] = "ret" /\ outcome[s] = "ok"

\* ExistingKeySet of the cycle of slot s, as (playedAt, trackId) pairs
StoreKeys(s) == RowKeys(DataRows(sheet0[s]))

(***************************************************************************)
(* C1. Key uniqueness: no two rows of the store share the same             *)
(* (playedAt, trackId) key, whatever pages the cycles fetched.             *)
(***************************************************************************)
KeyUniqueness ==
  LET rows == DataRows(sheet) IN
  \A i, j \in 1..Len(rows) : i # j => RowKey(rows[i]) # RowKey(rows[j])

(***************************************************************************)
(* C2. Set difference: a completed cycle of log.py collected an event of   *)
(* its page if and only if the event's (playedAt, trackId) key was not in  *)
(* the store, it collected nothing else, and the collected rows are what   *)
(* it appended.                                                            *)
(***************************************************************************)
SetDifference ==
  \A s \in Slots :
    (CycleDone(s) /\ script[s] = "log.py") =>
      /\ \A i \in 1..Len(results[s]) :
           ItemKey(results[s][i]) \in RowKeys(new_tracks[s])
             <=> ItemKey(results[s][i]) \notin StoreKeys(s)
      /\ RowKeys(new_tracks[s]) \subseteq { ItemKey(results[s][i]) : i \in 1..Len(results[s]) }
      /\ sheet = sheet0[s] \o new_tracks[s]

\* a completed log.py cycle whose page held a play already in the store and a play
\* of another track at the same playedAt: the first skipped, the second logged
SetDifferenceWitness ==
  \E s \in Slots :
    /\ CycleDone(s) /\ script[s] = "log.py"
    /\ \E i, j \in 1..Len(results[s]) :
         /\ results[s][i].played_at = results[s][j].played_at
         /\ results[s][i].track.id # results[s][j].track.id
         /\ ItemKey(results[s][i]) \in StoreKeys(s)
         /\ ItemKey(results[s][i]) \notin RowKeys(new_tracks[s])
         /\ ItemKey(results[s][j]) \in RowKeys(new_tracks[s])

(***************************************************************************)
(* C3. Idempotence: a cycle that fetches the page of the cycle completed   *)
(* just before it by the same reconciler (or by log.py, which filters      *)
(* nothing) collects no row, makes no append call and leaves the store     *)
(* unchanged.                                                              *)
(***************************************************************************)
Repeats(s) ==
  /\ repeat_of[s] # "none"
  /\ ~(repeat_of[s] = "logger.py" /\ script[s] = "log.py")

Idempotence ==
  \A s \in Slots :
    (Repeats(s) /\ pc[s] \in {"read", "proc", "ret"}) =>
      /\ new_tracks[s] = <<>>
      /\ appends[s] = 0
      /\ sheet = sheet0[s]

\* a completed repeat of a page whose plays are in the store
IdempotenceWitness ==
  \E s \in Slots :
    /\ CycleDone(s) /\ Repeats(s)
    /\ results[s] # <<>>
    /\ \A i \in 1..Len(results[s]) : ItemKey(results[s][i]) \in RowKeys(DataRows(sheet))

(***************************************************************************)
(* C4. Ordering: the batch of a completed cycle lists the new events in    *)
(* the reverse of the order the feed delivered them, so a newest-first     *)
(* page gives rows of ascending playedAt, and the batch follows all rows   *)
(* the store already held.                                                 *)
(***************************************************************************)
\* the events of the page of slot s that the cycle is to log
Wanted(s, item) == ~TooOld(s, item) /\ ItemKey(item) \notin StoreKeys(s)

RECURSIVE WantedBackFrom(_, _, _)
\* the wanted events among items[1..k], the last delivered first
WantedBackFrom(s, items, k) ==
  IF k = 0 THEN <<>>
  ELSE IF Wanted(s, items[k]) THEN <<items[k]>> \o WantedBackFrom(s, items, k - 1)
  ELSE WantedBackFrom(s, items, k - 1)

\* delivered newest first
NewestFirst(items) ==
  \A i, j \in 1..Len(items) :
    i < j => ParseIso(items[i].played_at) >= ParseIso(items[j].played_at)

Ordering ==
  \A s \in Slots :
    CycleDone(s) =>
      /\ KeySeqOfRows(new_tracks[s])
           = KeySeqOfItems(WantedBackFrom(s, results[s], Len(results[s])))
      /\ NewestFirst(results[s]) =>
           \A i, j \in 1..Len(new_tracks[s]) :
             i < j => ParseIso(new_tracks[s][i][1]) <= ParseIso(new_tracks[s][j][1])
      /\ sheet = sheet0[s] \o new_tracks[s]

\* a page delivered newest first whose two plays of different playedAt were both
\* appended, the older one first
OrderingWitness ==
  \E s \in Slots :
    /\ CycleDone(s) /\ appends[s] = 1
    /\ Len(results[s]) = 2 /\ Len(new_tracks[s]) = 2
    /\ ParseIso(results[s][1].played_at) > ParseIso(results[s][2].played_at)
    /\ new_tracks[s][1][1] = results[s][2].played_at
    /\ new_tracks[s][2][1] = results[s][1].played_at
    /\ sheet = sheet0[s] \o new_tracks[s]

(***************************************************************************)
(* C5. Missing-artist case: wherever in the page it stands, a new event    *)
(* without artists ends as a row with artists "" and genre "Unknown",      *)
(* without a genre lookup, and the cycle is not aborted (no external call  *)
(* having failed).                                                         *)
(***************************************************************************)
MissingArtistLogged ==
  \A s \in Slots :
    (pc[s] = "ret" /\ outcome[s] \in {"ok", "debug_raised"}) =>
      \A i \in 1..Len(results[s]) :
        (results[s][i].track.artists = <<>> /\ Wanted(s, results[s][i])) =>
          /\ outcome[s] = "ok"
          /\ \E k \in 1..Len(new_tracks[s]) :
               /\ RowKey(new_tracks[s][k]) = ItemKey(results[s][i])
               /\ new_tracks[s][k][3] = ""
               /\ new_tracks[s][k][7] = "Unknown"

(***************************************************************************)
(* C6. No lost entries across restarts: after a completed cycle of log.py  *)
(* every event of its page has a row in the store; the cycle's             *)
(* existing_entries is the key set of the store as it stood, whether or    *)
(* not the process was restarted before the cycle; and no row it appended  *)
(* repeats a key the store already held.                                   *)
(***************************************************************************)
NoLostEntries ==
  \A s \in Slots :
    script[s] = "log.py" =>
      /\ pc[s] \in {"proc", "ret"} /\ outcome[s] \in {"none", "ok"} =>
           existing_entries[s] = { EntryKey(k[1], k[2]) : k \in StoreKeys(s) }
      /\ CycleDone(s) =>
           /\ \A i \in 1..Len(results[s]) :
                ItemKey(results[s][i]) \in RowKeys(DataRows(sheet))
           /\ RowKeys(new_tracks[s]) \cap StoreKeys(s) = {}

\* the first cycle of a restarted log.py: the store held rows of an earlier
\* process, a play of the page was skipped as logged and another was appended
NoLostEntriesWitness ==
  \E s \in Slots :
    /\ CycleDone(s) /\ script[s] = "log.py" /\ first_cycle[s]
    /\ DataRows(sheet0[s]) # <<>>
    /\ appends[s] = 1
    /\ \E i \in 1..Len(results[s]) : ItemKey(results[s][i]) \in StoreKeys(s)

(***************************************************************************)
(* C7. No overlapping cycles: while the control panel starts and stops the *)
(* scripts, at most one process at a time is inside a sync cycle (has      *)
(* fetched its page and has not yet finished with the store).              *)
(***************************************************************************)
InCycle(s) == pc[s] \in {"read", "proc"}

NoOverlappingCycles == Cardinality({ s \in Slots : InCycle(s) }) <= 1

(***************************************************************************)
(* C8. Single batch write: a cycle makes at most one append call, and      *)
(* only once the loop over the page has ended; until that call the store   *)
(* is as the cycle found it, so a cycle that fails in the fetch, the debug *)
(* print or the store read leaves it untouched; and a failed cycle returns *)
(* from get_recently_played with the process still running.                *)
(***************************************************************************)
SingleBatchWrite ==
  \A s \in Slots :
    /\ appends[s] <= 1
    /\ appends[s] = 1 => (pc[s] = "ret" /\ idx[s] > Len(results[s]))
    /\ (appends[s] = 0 /\ pc[s] \in {"read", "proc", "ret"}) => sheet = sheet0[s]
    /\ outcome[s] \notin {"none", "ok"} => (pc[s] = "ret" /\ script[s] \in ScriptNames)

\* a cycle whose store read raised although its page held plays not yet logged
SingleBatchWriteWitness ==
  \E s \in Slots :
    /\ pc[s] = "ret" /\ outcome[s] = "read_raised"
    /\ Unlogged(results[s], sheet) # {}
    /\ DataRows(sheet) # <<>>
    /\ sheet = sheet0[s]

(***************************************************************************)
(* C9. No write when nothing is new: a cycle that collected no row (empty  *)
(* page, or only duplicates and events before today) makes no append call  *)
(* and leaves the store unchanged.                                         *)
(***************************************************************************)
NoWriteWhenNothingNew ==
  \A s \in Slots :
    (pc[s] = "ret" /\ new_tracks[s] = <<>>) => (appends[s] = 0 /\ sheet = sheet0[s])

\* a completed logger.py cycle whose page held a duplicate and an event before today
NoWriteWhenNothingNewWitness ==
  \E s \in Slots :
    /\ CycleDone(s) /\ new_tracks[s] = <<>>
    /\ \E i, j \in 1..Len(results[s]) :
         /\ TooOld(s, results[s][i])
         /\ ~TooOld(s, results[s][j])
         /\ ItemKey(results[s][j]) \in StoreKeys(s)

(***************************************************************************)
(* C10. Append-only store: every step of the system (header setup and      *)
(* cycles included) leaves the data rows it found as a prefix of the data  *)
(* rows afterwards.                                                        *)
(***************************************************************************)
AppendOnly == [][IsPrefix(DataRows(sheet), DataRows(sheet'))]_vars

\* a cycle appended a batch behind data rows the store already held
AppendOnlyWitness ==
  \E s \in Slots :
    /\ CycleDone(s) /\ appends[s] = 1
    /\ DataRows(sheet0[s]) # <<>>
    /\ sheet # sheet0[s]

(***************************************************************************)
(* C11. Genre lookup failure is absorbed: the genre of a row is the        *)
(* artist's tags joined with ", " when sp.artist answers with tags, and    *)
(* "Unknown" when it answers with no tag or raises; a lookup that raised   *)
(* never ends the cycle, whose batch still holds a row for every new       *)
(* event and is appended whole.                                            *)
(***************************************************************************)
\* a row whose track lists an artist: the rows a lookup is made for
HasArtist(row) == row[3] # ""

GenreOf(reply) ==
  IF reply.raised \/ reply.genres = <<>> THEN "Unknown" ELSE Join(", ", reply.genres)

GenreLookupAbsorbed ==
  \A s \in Slots :
    /\ pc[s] \in {"proc", "ret"} =>
         LET looked == SelectSeq(new_tracks[s], HasArtist) IN
           /\ Len(looked) = Len(lookups[s])
           /\ \A k \in 1..Len(looked) : looked[k][7] = GenreOf(lookups[s][k].reply)
    /\ (pc[s] = "ret" /\ \E k \in 1..Len(lookups[s]) : lookups[s][k].reply.raised) =>
         outcome[s] \in {"ok", "append_raised"}
    /\ CycleDone(s) =>
         /\ Len(new_tracks[s]) = Len(WantedBackFrom(s, results[s], Len(results[s])))
         /\ sheet = sheet0[s] \o new_tracks[s]

\* a completed cycle with two new events: the lookup for the first raised, the
\* lookup for the second gave tags, and both rows are in the store
GenreLookupAbsorbedWitness ==
  \E s \in Slots :
    /\ CycleDone(s) /\ appends[s] = 1
    /\ Len(new_tracks[s]) = 2 /\ Len(lookups[s]) = 2
    /\ lookups[s][1].reply.raised
    /\ ~lookups[s][2].reply.raised /\ lookups[s][2].reply.genres # <<>>
    /\ new_tracks[s][1][7] = "Unknown"
    /\ new_tracks[s][2][7] = "rock, pop"
    /\ sheet = sheet0[s] \o new_tracks[s]

(***************************************************************************)
(* C12. Day filter: whatever zone the host keeps its clock in, a completed *)
(* logger.py cycle appended no event played before the current calendar    *)
(* day began and appended every not yet logged event played since; a       *)
(* completed log.py cycle appended every not yet logged event.             *)
(***************************************************************************)
\* zones of the host, in minutes east of UTC: Pago Pago, UTC, Berlin in summer.
\* The scripts read the clock through datetime.now() only, so the zone changes
\* nothing in what they do
UtcOffsets == {-660, 0, 120}

\* the instant, as ParseIso counts, at which the day of local midnight `midnight`
\* began on a host `offset` minutes east of UTC
DayStart(midnight, offset) == midnight - offset

NeverExitsOnItsOwn ==
  [][\A s \in Slots :
       /\ pc[s] # "off" => pc'[s] # "off"
       /\ pc[s] = "ret" => pc'[s] \in {"ret", "loop"}]_vars

(***************************************************************************)
(* C14. No retry inside a cycle: a call that raises ends the cycle at      *)
(* once; the fetch is made from the top of the loop only, the store is     *)
(* read only right after the fetch, append_rows is called at most once;    *)
(* and from the return of get_recently_played the process does nothing to  *)
(* the store before the driver has waited and begun the next cycle.        *)
(***************************************************************************)
NoRetryInCycle ==
  [][\A s \in Slots :
       /\ (outcome'[s] # outcome[s] /\ outcome'[s] \notin {"none", "ok"}) => pc'[s] = "ret"
       /\ (pc'[s] = "read" /\ pc[s] # "read") => pc[s] = "loop"
       /\ (pc'[s] = "proc" /\ pc[s] # "proc") => pc[s] = "read"
       /\ appends'[s] <= 1
       /\ appends'[s] > appends[s] => (pc[s] = "proc" /\ pc'[s] = "ret")
       /\ pc[s] = "ret" =>
            /\ pc'[s] \in {"ret", "loop", "off"}
            /\ sheet' = sheet
            /\ appends'[s] \in {appends[s], 0}]_vars

\* a later cycle of a running log.py whose append_rows raised: the batch is
\* collected, the one call is made, the store is as the cycle found it
NoRetryInCycleWitness ==
  \E s \in Slots :
    /\ script[s] = "log.py" /\ ~first_cycle[s]
    /\ pc[s] = "ret" /\ outcome[s] = "append_raised"
    /\ new_tracks[s] # <<>>
    /\ appends[s] = 1
    /\ sheet = sheet0[s]

(***************************************************************************)
(* C15. Bounded log buffer: whenever no caller is inside log_message the   *)
(* buffer holds at most LogCap entries, and it holds the entries given to  *)
(* it last, in the order given: past the cap the oldest entry is gone and  *)
(* the others keep their order.  Inside log_message, under the lock, the   *)
(* buffer is at most one entry over the cap.                               *)
(***************************************************************************)
\* the last n entries of seq
LastOf(seq, n) == IF Len(seq) <= n THEN seq ELSE SubSeq(seq, Len(seq) - n + 1, Len(seq))

BoundedLog ==
  /\ Len(log_content) <= LogCap + 1
  /\ log_lock = "free" =>
       /\ Len(log_content) <= LogCap
       /\ log_content = LastOf(logged, LogCap)

\* three entries were logged on the nearly full buffer by different callers: the
\* buffer is full and the two oldest entries are gone
BoundedLogWitness ==
  /\ log_lock = "free"
  /\ Len(logged) = LogCap + 2
  /\ Len(log_content) = LogCap
  /\ log_content[1] = logged[3]
  /\ log_content[LogCap] = logged[LogCap + 2]
  /\ \E t, u \in Callers :
       /\ t # u
       /\ log_content[LogCap - 1] = Entry(t, LogCap + 1)
       /\ log_content[LogCap] = Entry(u, LogCap + 2)

(***************************************************************************)
(* C16. At most one live child per script: after every step of the panel   *)
(* and of its children each script name has at most one live child, and    *)
(* every live child is the one the process table holds under its name; a   *)
(* child is spawned for a name only when the name has no live child; and a *)
(* run-script request for a name whose tracked child is alive answers      *)
(* "info" and leaves children and table as they were.                      *)
(***************************************************************************)
\* the live children running script name
LiveChildren(name) == { s \in Slots : Alive(s) /\ script[s] = name }

OneLiveChildPerScript ==
  [][\A name \in ScriptNames :
       /\ Cardinality(LiveChildren(name)') <= 1
       /\ \A s \in LiveChildren(name)' : processes'[name] = s
       /\ LiveChildren(name)' \ LiveChildren(name) # {} =>
            (LiveChildren(name) = {} /\ response' = "success")
       /\ \A file_exists, popen_ok \in BOOLEAN :
            (Tracked(name) /\ Alive(processes[name])
               /\ run_script(name, file_exists, popen_ok)) =>
              /\ response' = "info"
              /\ pc' = pc /\ script' = script /\ processes' = processes]_vars

\* both scripts run and a second request to run log.py was answered "already
\* running"
OneLiveChildPerScriptWitness ==
  /\ response = "info"
  /\ log_content[Len(log_content)] = "log.py is already running"
  /\ \A name \in ScriptNames : Tracked(name) /\ LiveChildren(name) = {processes[name]}

(***************************************************************************)
(* C17. Start errors are values: a run-script request with a name other    *)
(* than log.py and logger.py is answered "error" (400); one for a script   *)
(* that is not running and whose file is missing, "error" (404); one whose *)
(* Popen raises, "error" (500) with the error and the traceback logged;    *)
(* each time the request is answered, and every "error" answer leaves the  *)
(* process table and the children as they were.                            *)
(***************************************************************************)
\* the child tracked under name is alive
Running(name) == Tracked(name) /\ Alive(processes[name])

StatusByLiveness ==
  [][get_status =>
       /\ requests' = requests + 1 /\ response' = "status"
       /\ DOMAIN status' = { n \in ScriptNames : Tracked(n) }
       /\ \A n \in DOMAIN status' :
            /\ status'[n].running <=> Alive(processes[n])
            /\ status'[n].pid = IF Alive(processes[n]) THEN processes[n] ELSE 0
       /\ \A n \in ScriptNames :
            /\ Running(n) => processes'[n] = processes[n]
            /\ ~Running(n) => processes'[n] = 0
            /\ processes'[n] # 0 => pc'[processes'[n]] # "off"]_vars

\* a status response that reports one script running and the other, whose child
\* had ended, not running; the table is left with the live child alone
StatusByLivenessWitness ==
  /\ response = "status"
  /\ DOMAIN status = ScriptNames
  /\ \E n, m \in ScriptNames :
       /\ status[n].running /\ status[n].pid = processes[n] /\ Alive(processes[n])
       /\ ~status[m].running /\ processes[m] = 0

(***************************************************************************)
(* C19. Stop protocol: to a tracked live child stop-script sends the       *)
(* termination signal first and the kill only when the wait ended with the *)
(* child still there; when it answers "success" the child is gone and its  *)
(* entry removed; for a name not tracked it answers "info" and changes     *)
(* nothing; for a tracked child that has ended it answers "info" and only  *)
(* removes the entry.                                                      *)
(***************************************************************************)
StopProtocol ==
  [][/\ \A s \in Slots :
          /\ signals'[s] \in {<<>>, <<"terminate">>, <<"terminate", "kill">>}
          /\ (signals'[s] # signals[s] /\ signals'[s] # <<>>) =>
               /\ Alive(s)
               /\ \E name \in ScriptNames : processes[name] = s
          /\ (signals'[s] # signals[s] /\ Len(signals'[s]) = 2) =>
               /\ stopping \in ScriptNames
               /\ processes[stopping] = s
     /\ (stopping # "none" /\ stopping' = "none") =>
          /\ response' = "success"
          /\ pc'[processes[stopping]] = "off"
          /\ processes' = [processes EXCEPT ![stopping] = 0]
     /\ \A name \in RequestNames :
          stop_script(name) =>
            /\ ~Tracked(name) =>
                 /\ response' = "info"
                 /\ processes' = processes /\ pc' = pc /\ signals' = signals
                 /\ stopping' = "none"
            /\ (Tracked(name) /\ ~Alive(processes[name])) =>
                 /\ response' = "info"
                 /\ processes' = [processes EXCEPT ![name] = 0]
                 /\ pc' = pc /\ signals' = signals
                 /\ stopping' = "none"
            /\ Running(name) =>
                 /\ signals'[processes[name]] = <<"terminate">>
                 /\ stopping' = name
                 /\ processes' = processes]_vars

\* a child that did not end on the termination signal was killed and its entry
\* removed, while the child of the other script runs on, tracked
StopProtocolWitness ==
  /\ response = "success"
  /\ stopping = "none"
  /\ \E s, u \in Slots, n \in ScriptNames :
       /\ signals[s] = <<"terminate", "kill">> /\ ~Alive(s)
       /\ log_content[Len(log_content)] = "Force stopped " \o n
       /\ processes[n] = 0
       /\ Alive(u) /\ script[u] # n /\ processes[script[u]] = u

(***************************************************************************)
(* C20. Key-set loader is exact: once setup_google_sheets has run the      *)
(* header row is row 1 and no other row (a start never adds a header to a  *)
(* sheet that has one), and in every cycle of either script that has read  *)
(* the store existing_entries holds the key of every data row the store    *)
(* had when the cycle began and nothing but keys of data rows of the       *)
(* store: not the header's key.                                            *)
(***************************************************************************)
\* the script of slot s is past setup_google_sheets
SetUp(s) == pc[s] \in {"loop", "read", "proc", "ret"}

\* the cycle of slot s has built existing_entries
HasRead(s) == pc[s] \in {"proc", "ret"} /\ outcome[s] \in {"none", "ok", "append_raised"}

\* the keys of the data rows of a sheet, as get_recently_played writes keys
DataKeys(sh) == { EntryKey(k[1], k[2]) : k \in RowKeys(DataRows(sh)) }

KeySetExact ==
  \A s \in Slots :
    /\ SetUp(s) =>
         /\ sheet # <<>> /\ sheet[1] = Header
         /\ \A i \in 2..Len(sheet) : sheet[i] # Header
    /\ HasRead(s) =>
         /\ DataKeys(sheet0[s]) \subseteq existing_entries[s]
         /\ existing_entries[s] \subseteq DataKeys(sheet)
         /\ EntryKey(Header[1], Header[6]) \notin existing_entries[s]

(***************************************************************************)
(* C21. Both variants at once: while the control panel runs log.py and     *)
(* logger.py against the same store, however their cycles interleave, no   *)
(* play event has more than one row in the store.                          *)
(***************************************************************************)
\* the positions of the rows of a sheet that record the play event item
RowsOf(sh, item) ==
  { i \in 1..Len(sh) : NotHeaderRow(sh[i]) /\ RowKey(sh[i]) = ItemKey(item) }

NoDoubleLogging == \A item \in Items : Cardinality(RowsOf(sheet, item)) <= 1

(***************************************************************************)
(* C22. Genre lookups per cycle: a cycle makes exactly one genre lookup    *)
(* for each new row whose event lists at least one artist, in the order of *)
(* the rows and always on the first listed artist; nothing is cached, so   *)
(* two new rows with the same first artist give two lookups; an event      *)
(* skipped as already stored or dropped by the day filter, and an event    *)
(* with no artist, gives none; a cycle that never reached its loop made    *)
(* none.                                                                   *)
(***************************************************************************)
ListsArtist(item) == item.track.artists # <<>>

\* the lookups the loop owes for the events of items, in the order given
LookupsDue(items) ==
  LET due == SelectSeq(items, ListsArtist)
  IN [k \in 1..Len(due) |-> due[k].track.artists[1].id]

LookupIds(s) == [k \in 1..Len(lookups[s]) |-> lookups[s][k].artist_id]

LookupsPerCycle ==
  \A s \in Slots :
    /\ pc[s] \in {"proc", "ret"} =>
         Len(lookups[s]) = Len(SelectSeq(new_tracks[s], HasArtist))
    /\ (pc[s] = "ret" /\ outcome[s] \in {"ok", "append_raised"}) =>
         LookupIds(s) = LookupsDue(WantedBackFrom(s, results[s], Len(results[s])))
    /\ (pc[s] = "ret" /\ outcome[s] \notin {"ok", "append_raised"}) =>
         lookups[s] = <<>>

\* two new rows with the same first artist, one of them with a second
\* artist: two lookups, both of the first artist
LookupsPerCycleWitness ==
  \E s \in Slots :
    /\ CycleDone(s)
    /\ Len(new_tracks[s]) = 2
    /\ LookupIds(s) = <<Artist1.id, Artist1.id>>
    /\ \E k \in 1..Len(results[s]) :
         /\ results[s][k].track = TrackA
         /\ Wanted(s, results[s][k])
         /\ Len(TrackA.artists) = 2

(***************************************************************************)
(* The two scripts side by side: log.py and logger.py started from two     *)
(* terminals on a sheet that has its header, each followed through one     *)
(* cycle.                                                                  *)
(***************************************************************************)
\* the sheets the pair is started on: the header alone, or the header and the
\* row of one logged play
PairStores == { <<Header>>, <<Header, RowData(PadItem, "rock, pop")>> }

\* the pages the feed serves to the pair
PairPages == SeqsUpTo(Items, MaxPage)

InitPair ==
  /\ sheet \in PairStores
  /\ today \in TodayStarts
  /\ pc = [s \in Slots |-> "loop"]
  /\ script = [s \in Slots |-> IF s = 1 THEN "log.py" ELSE "logger.py"]
  /\ results = [s \in Slots |-> <<>>]
  /\ today_start = [s \in Slots |-> 0]
  /\ existing_entries = [s \in Slots |-> {}]
  /\ idx = [s \in Slots |-> 0]
  /\ new_tracks = [s \in Slots |-> <<>>]
  /\ sheet0 = [s \in Slots |-> <<>>]
  /\ appends = [s \in Slots |-> 0]
  /\ outcome = [s \in Slots |-> "none"]
  /\ lookups = [s \in Slots |-> <<>>]
  /\ repeat_of = [s \in Slots |-> "none"]
  /\ first_cycle = [s \in Slots |-> TRUE]
  /\ last_done = NoPage
  /\ processes = [n \in ScriptNames |-> 0]
  /\ log_content = <<>>
  /\ reader = [s \in Slots |-> "none"]
  /\ response = "none"
  /\ requests = 0
  /\ log_lock = "free"
  /\ logged = <<>>
  /\ status = <<>>
  /\ stopping = "none"
  /\ signals = [s \in Slots |-> <<>>]
  /\ slept = [s \in Slots |-> 0]
  /\ stdout = [s \in Slots |-> <<>>]
  /\ emitted = [s \in Slots |-> <<>>]
  /\ relayed = [s \in Slots |-> <<>>]
  /\ clearing = "none"

NextPair ==
  \E s \in Slots :
    \/ Fetch(s, PairPages)
    \/ FetchRaise(s)
    \/ ReadStore(s)
    \/ ReadRaise(s)
    \/ ProcessItem(s)
    \/ AppendRows(s)
    \/ AppendRaise(s)
    \/ NothingNew(s)

SpecPair == InitPair /\ [][NextPair]_vars

(***************************************************************************)
(* C23. Variant equivalence: when a log.py cycle and a logger.py cycle     *)
(* fetched the same page and read the same store, and no event of the page *)
(* is before the today_start of logger.py, both made the same lookups and  *)
(* built batches with the same events in the same order, row for row equal *)
(* in the six columns taken from the event; given the same answers of the  *)
(* artist service the batches are equal; and if both ran through, both     *)
(* made the same number of append calls.                                   *)
(***************************************************************************)
\* the cycle of slot s fetched `page` and filled existing_entries from `store`
CycleOn(s, page, store) ==
  /\ pc[s] = "ret"
  /\ outcome[s] \in {"ok", "append_raised"}
  /\ results[s] = page
  /\ sheet0[s] = store
  /\ existing_entries[s] = ExistingEntries(store)

\* no event of the page is before the threshold the logger.py cycle of slot s used
NoneFiltered(s) ==
  \A i \in 1..Len(results[s]) : ParseIso(results[s][i].played_at) >= today_start[s]

EventColumns(row) == SubSeq(row, 1, MinKeyCols)

Replies(s) == [k \in 1..Len(lookups[s]) |-> lookups[s][k].reply]

NextDriver ==
  \/ Launch(1, "log.py")
  \/ SetupCheck(1)
  \/ InsertHeader(1)
  \/ Fetch(1, ShortPages)
  \/ FetchRaise(1)
  \/ ReadStore(1)
  \/ ReadRaise(1)
  \/ ProcessItem(1)
  \/ AppendRows(1)
  \/ AppendRaise(1)
  \/ NothingNew(1)
  \/ Return(1)
  \/ Unexpected(1)
  \/ Kill(1)

SpecDriver == Init /\ [][NextDriver]_vars

\* the seconds run_logger sleeps after get_recently_played returned
NormalWait == interval_minutes * 60

\* the cycle of slot s ended in the except block of get_recently_played
CycleFailed(s) == pc[s] = "ret" /\ outcome[s] # "ok"

MaxLines == 2

\* the n-th line a child prints: its leading blanks and the rest of it up to the
\* newline, which is empty when the scripts print "\n" within a message
ChildLine(n, empty) ==
  [indent |-> 3, text |-> IF empty THEN "" ELSE "line " \o ToString(n)]

\* line.strip()
strip(line) == line.text

\* f"[{script_name}] {line}"
Tagged(script_name, text) == "[" \o script_name \o "] " \o text

\* print(...) in the child: the line goes into the pipe
Emit(s, empty) ==
  /\ Alive(s)
  /\ reader[s] # "none"
  /\ Len(emitted[s]) < MaxLines
  /\ LET line == ChildLine(Len(emitted[s]) + 1, empty) IN
       /\ stdout' = [stdout EXCEPT ![s] = Append(@, line)]
       /\ emitted' = [emitted EXCEPT ![s] = Append(@, line)]
  /\ UNCHANGED <<sheet, today, pc, script, locals, history, first_cycle, last_done,
                 processes, log_content, reader, response, requests, relayed, clearing>>
  /\ UNCHANGED <<logging, status, stopping, signals>>

\* mutant of ReadLine: the loop is left at the first blank line
ReadLineStopsAtBlank(s) ==
  /\ reader[s] # "none"
  /\ stdout[s] # <<>>
  /\ LET line == strip(Head(stdout[s])) IN
       IF line # ""
         THEN /\ log_content' = log_message(log_content, Tagged(reader[s], line))
              /\ relayed' = [relayed EXCEPT ![s] = Append(@, Tagged(reader[s], line))]
              /\ stdout' = [stdout EXCEPT ![s] = Tail(@)]
         ELSE /\ stdout' = [stdout EXCEPT ![s] = <<>>]
              /\ UNCHANGED <<log_content, relayed>>
  /\ UNCHANGED <<sheet, today, pc, script, locals, history, first_cycle, last_done,
                 processes, reader, response, requests, emitted, clearing>>
  /\ UNCHANGED <<logging, status, stopping, signals>>

\* one pass of the loop of read_process_output with a line in the pipe:
\* proc.stdout.readline(), line.strip(), and log_message if something is left
ReadLine(s) ==
  /\ reader[s] # "none"
  /\ stdout[s] # <<>>
  /\ stdout' = [stdout EXCEPT ![s] = Tail(@)]
  /\ LET line == strip(Head(stdout[s])) IN
       IF line # ""
         THEN /\ log_content' = log_message(log_content, Tagged(reader[s], line))
              /\ relayed' = [relayed EXCEPT ![s] = Append(@, Tagged(reader[s], line))]
         ELSE UNCHANGED <<log_content, relayed>>
  /\ UNCHANGED <<sheet, today, pc, script, locals, history, first_cycle, last_done,
                 processes, reader, response, requests, emitted, clearing>>
  /\ UNCHANGED <<logging, status, stopping, signals>>

NextRelay ==
  \/ /\ requests < Cardinality(Slots)
     /\ \E name \in ScriptNames : run_script(name, TRUE, TRUE)
  \/ \E s \in Slots :
       \/ \E empty \in BOOLEAN : Emit(s, empty)
       \/ ReadLine(s)
       \/ ReaderEnd(s)
       \/ Kill(s)

SpecRelay == InitPanel /\ [][NextRelay]_vars

\* the reader threads are scheduled: a reader that can take a step takes one
FairRelay ==
  SpecRelay /\ \A s \in Slots : WF_vars(ReadLine(s)) /\ WF_vars(ReaderEnd(s))

(***************************************************************************)
(* C25. Output relay: for each started child, the entries its reader       *)
(* thread has logged are, in order and once each, the lines the thread has *)
(* read that are not blank, stripped and tagged with the script name;      *)
(* every entry goes into the log buffer in that order, one entry per line; *)
(* what the thread has not read is still in the pipe; the thread ends only *)
(* when the child has exited and the pipe is drained, and its last entry,  *)
(* after all lines of the child, is the one 'Process ended' entry; and,    *)
(* the thread being scheduled, once the child has exited the thread ends.  *)
(***************************************************************************)
NonBlank(line) == line.text # ""

\* the entries owed for the lines of a child of script_name
TaggedLines(script_name, lines) ==
  LET kept == SelectSeq(lines, NonBlank)
  IN [k \in 1..Len(kept) |-> Tagged(script_name, kept[k].text)]

\* the lines the reader thread of slot s has taken from the pipe
Consumed(s) == SubSeq(emitted[s], 1, Len(emitted[s]) - Len(stdout[s]))

RECURSIVE IsSubSeq(_, _)
\* the entries of part occur in whole, in the order of part
IsSubSeq(part, whole) ==
  IF part = <<>> THEN TRUE
  ELSE IF whole = <<>> THEN FALSE
  ELSE IF Head(part) = Head(whole) THEN IsSubSeq(Tail(part), Tail(whole))
  ELSE IsSubSeq(part, Tail(whole))

\* the reader thread of slot s has ended
ReaderDone(s) == reader[s] = "none" /\ relayed[s] # <<>>

RelayedInOrder ==
  \A s \in Slots :
    /\ emitted[s] = Consumed(s) \o stdout[s]
    /\ reader[s] # "none" => relayed[s] = TaggedLines(reader[s], Consumed(s))
    /\ ReaderDone(s) =>
         /\ ~Alive(s)
         /\ stdout[s] = <<>>
         /\ \E name \in ScriptNames :
              relayed[s] = Append(TaggedLines(name, emitted[s]), ProcessEnded(name))
    /\ IsSubSeq(relayed[s], log_content)

OutputRelay ==
  /\ []RelayedInOrder
  /\ [][\A s \in Slots :
          /\ ReadLine(s) =>
               \/ /\ NonBlank(Head(stdout[s]))
                  /\ log_content' = Append(log_content, Tagged(reader[s], Head(stdout[s]).text))
               \/ /\ ~NonBlank(Head(stdout[s]))
                  /\ log_content' = log_content
          /\ ReaderEnd(s) => log_content' = Append(log_content, ProcessEnded(reader[s]))]_vars
  /\ \A s \in Slots : (reader[s] # "none" /\ ~Alive(s)) ~> (reader[s] = "none")

\* a child printed an empty line and then a line, and exited; its reader has
\* logged the line and 'Process ended' and is gone
OutputRelayWitness ==
  \E s \in Slots :
    /\ ReaderDone(s)
    /\ Len(emitted[s]) = MaxLines
    /\ ~NonBlank(emitted[s][1])
    /\ relayed[s] = <<Tagged("log.py", "line 2"), ProcessEnded("log.py")>>
    /\ IsSubSeq(relayed[s], log_content)

(***************************************************************************)
(* main.py: clear_log beside the reader threads.  The handler takes        *)
(* log_lock to clear the buffer, leaves the with block, and calls          *)
(* log_message, which takes log_lock again.                                *)
(***************************************************************************)
\* POST /clear-log: `with log_lock: log_content.clear()`
ClearBuffer ==
  /\ clearing = "none"
  /\ log_lock = "free"
  /\ log_content' = <<>>
  /\ clearing' = "cleared"
  /\ UNCHANGED <<sheet, today, pc, script, locals, history, first_cycle, last_done,
                 processes, reader, response, requests, status, stopping, signals>>
  /\ UNCHANGED <<relay, logging>>

\* clear_log: log_message("Log cleared") enters its with block and appends
ClearAppend ==
  /\ clearing = "cleared"
  /\ log_lock = "free"
  /\ log_content' = Append(log_content, "Log cleared")
  /\ logged' = Append(logged, "Log cleared")
  /\ log_lock' = "loop"
  /\ clearing' = "appended"
  /\ UNCHANGED <<sheet, today, pc, script, locals, history, first_cycle, last_done,
                 processes, reader, response, requests, status, stopping, signals>>
  /\ UNCHANGED relay

\* clear_log: the length test of log_message, the with block is left, and the
\* handler returns its response
ClearReturn ==
  /\ clearing = "appended"
  /\ log_lock = "loop"
  /\ log_content' = Trimmed(log_content)
  /\ log_lock' = "free"
  /\ clearing' = "none"
  /\ response' = "success"
  /\ requests' = requests + 1
  /\ UNCHANGED <<sheet, today, pc, script, locals, history, first_cycle, last_done,
                 processes, reader, logged, status, stopping, signals>>
  /\ UNCHANGED relay

\* the reader threads of two children
Readers == Callers \ {"loop"}

NextClear ==
  \/ /\ requests < MaxRequests
     /\ ClearBuffer
  \/ ClearAppend
  \/ ClearReturn
  \/ \E t \in Readers : LogAppend(t) \/ LogTrim(t)

SpecClear == InitLog /\ [][NextClear]_vars

(***************************************************************************)
(* C26. Clear-log atomicity: when a clear-log request returns, the log     *)
(* buffer begins with the 'Log cleared' entry, whatever the reader threads *)
(* logged meanwhile.                                                       *)
(***************************************************************************)
ClearLogAtomic ==
  [][ClearReturn => (log_content' # <<>> /\ Head(log_content') = "Log cleared")]_vars

====
